---- MODULE Spec2Model ----
(***************************************************************************)
(* Model of irc/commands.go: the line tokenizer (parseArg, parseLine), the *)
(* verb registry and dispatcher (ParseCommand), the per-verb constructors, *)
(* the user-mode decoder with its background rune producer                 *)
(* (stringToRunes) and the PART message accessor.                          *)
(*                                                                         *)
(* A Go string is a sequence of bytes.  An ASCII byte is written as the    *)
(* one-character string of its character; the bytes of the two-byte and    *)
(* three-byte encodings used here are written "xC3", "xA9", ...            *)
(* A rune is written as its character (ASCII) or as "U+00E9", ...          *)
(***************************************************************************)
EXTENDS Integers, Sequences, FiniteSets, TLC

VARIABLES
    line,      \* the raw line handed to ParseCommand
    pc,        \* position of the caller: "recv", "mode_for", "mode_sig",
               \* "mode_range", "returned"
    result,    \* what ParseCommand returned: a command, an error, or a panic
    args,      \* NewUserModeCommand: its argument list
    changes,   \* NewUserModeCommand: cmd.changes
    index,     \* NewUserModeCommand: index (0-based, as in the code)
    argi,      \* NewUserModeCommand: position of the range loop in args[1:]
    add,       \* NewUserModeCommand: add
    runes,     \* one entry per goroutine started by stringToRunes
    client,    \* BaseCommand.client of the returned command
    nick,      \* the nickname of the owning connection
    msgRead    \* what the last PartCommand.Message() call returned

vars == <<line, pc, result, args, changes, index, argi, add, runes, client,
          nick, msgRead>>

----------------------------------------------------------------------------
(* Bounds of the explored inputs.                                          *)

MaxLineLen == 6
MaxArgs == 5
MaxChans == 2
MaxKeys == 2
MaxModeRunes == 4
MaxModeTokLen == 3

----------------------------------------------------------------------------
(* Generic helpers on sequences.                                           *)

SeqsUpTo(S, n) == UNION {[1..k -> S] : k \in 0..n}

SeqsFromTo(S, lo, n) == UNION {[1..k -> S] : k \in lo..n}

RECURSIVE Flatten(_)
Flatten(ss) == IF ss = <<>> THEN <<>> ELSE Head(ss) \o Flatten(Tail(ss))

RECURSIVE JoinWith(_, _)
JoinWith(ss, sep) ==
    IF ss = <<>> THEN <<>>
    ELSE IF Len(ss) = 1 THEN ss[1]
    ELSE ss[1] \o sep \o JoinWith(Tail(ss), sep)

\* Index of the first occurrence of byte b in s, 0 when absent.
RECURSIVE IndexFrom(_, _, _)
IndexFrom(s, b, i) ==
    IF i > Len(s) THEN 0
    ELSE IF s[i] = b THEN i
    ELSE IndexFrom(s, b, i + 1)

IndexByte(s, b) == IndexFrom(s, b, 1)

----------------------------------------------------------------------------
(* unicode/utf8 and strings, as far as commands.go uses them.              *)

RuneError == "U+FFFD"

NonAsciiBytes == {"xC3", "xA9", "x89", "xEF", "xBF", "xBD"}

\* utf8.DecodeRuneInString on a non-empty string: the rune and its width.
DecodeRuneInString(s) ==
    IF s[1] \notin NonAsciiBytes THEN [rune |-> s[1], size |-> 1]
    ELSE IF s[1] = "xC3" /\ Len(s) >= 2 /\ s[2] = "xA9"
        THEN [rune |-> "U+00E9", size |-> 2]
    ELSE IF s[1] = "xC3" /\ Len(s) >= 2 /\ s[2] = "x89"
        THEN [rune |-> "U+00C9", size |-> 2]
    ELSE IF s[1] = "xEF" /\ Len(s) >= 3 /\ s[2] = "xBF" /\ s[3] = "xBD"
        THEN [rune |-> RuneError, size |-> 3]
    ELSE [rune |-> RuneError, size |-> 1]

EncodeRune(r) ==
    IF r = "U+00E9" THEN <<"xC3", "xA9">>
    ELSE IF r = "U+00C9" THEN <<"xC3", "x89">>
    ELSE IF r = RuneError THEN <<"xEF", "xBF", "xBD">>
    ELSE <<r>>

RECURSIVE RuneCountInString(_)
RuneCountInString(s) ==
    IF s = <<>> THEN 0
    ELSE 1 + RuneCountInString(
                SubSeq(s, DecodeRuneInString(s).size + 1, Len(s)))

LowerCase == <<"a", "b", "c", "d", "e", "f", "g", "h", "i", "j", "k", "l",
               "m", "n", "o", "p", "q", "r", "s", "t", "u", "v", "w", "x",
               "y", "z">>

UpperCase == <<"A", "B", "C", "D", "E", "F", "G", "H", "I", "J", "K", "L",
               "M", "N", "O", "P", "Q", "R", "S", "T", "U", "V", "W", "X",
               "Y", "Z">>

\* unicode.ToUpper on the runes of the model.
ToUpperRune(r) ==
    IF \E i \in 1..Len(LowerCase) : LowerCase[i] = r
        THEN UpperCase[CHOOSE i \in 1..Len(LowerCase) : LowerCase[i] = r]
    ELSE IF r = "U+00E9" THEN "U+00C9"
    ELSE r

\* strings.ToUpper: every rune mapped to upper case and encoded again.
RECURSIVE ToUpper(_)
ToUpper(s) ==
    IF s = <<>> THEN <<>>
    ELSE LET d == DecodeRuneInString(s)
         IN  EncodeRune(ToUpperRune(d.rune))
                \o ToUpper(SubSeq(s, d.size + 1, Len(s)))

\* strings.Split(s, sep) for a one-byte separator.
RECURSIVE Split(_, _)
Split(s, sep) ==
    LET i == IndexByte(s, sep)
    IN  IF i = 0 THEN <<s>>
        ELSE <<SubSeq(s, 1, i - 1)>> \o Split(SubSeq(s, i + 1, Len(s)), sep)

\* strings.SplitN(s, sep, 2) for a one-byte separator.
SplitN2(s, sep) ==
    LET i == IndexByte(s, sep)
    IN  IF i = 0 THEN <<s>>
        ELSE <<SubSeq(s, 1, i - 1), SubSeq(s, i + 1, Len(s))>>

\* strconv.ParseUint(s, 10, 8): err is TRUE for a syntax or a range error.
Digits == <<"0", "1", "2", "3", "4", "5", "6", "7", "8", "9">>

DigitValue(b) == (CHOOSE i \in 1..10 : Digits[i] = b) - 1

IsDigit(b) == \E i \in 1..10 : Digits[i] = b

MaxUint8 == 255

RECURSIVE ParseUintFrom(_, _, _)
ParseUintFrom(s, i, acc) ==
    IF i > Len(s) THEN [err |-> FALSE, val |-> acc]
    ELSE IF ~IsDigit(s[i]) THEN [err |-> TRUE, val |-> 0]
    ELSE IF acc * 10 + DigitValue(s[i]) > MaxUint8
        THEN [err |-> TRUE, val |-> MaxUint8]
    ELSE ParseUintFrom(s, i + 1, acc * 10 + DigitValue(s[i]))

ParseUint(s) ==
    IF s = <<>> THEN [err |-> TRUE, val |-> 0] ELSE ParseUintFrom(s, 1, 0)

----------------------------------------------------------------------------
(* The tokenizer.                                                          *)

\* parseArg without the case of a leading ":".
parseArgNoTrailing(ln) ==
    IF ln = <<>> THEN [arg |-> <<>>, rest |-> <<>>]
    ELSE LET parts == SplitN2(ln, " ")
         IN  [arg |-> parts[1],
              rest |-> IF Len(parts) > 1 THEN parts[2] ELSE <<>>]

parseArg(ln) ==
    IF ln = <<>> THEN [arg |-> <<>>, rest |-> <<>>]
    ELSE IF ln[1] = ":" THEN [arg |-> Tail(ln), rest |-> <<>>]
    ELSE LET parts == SplitN2(ln, " ")
         IN  [arg |-> parts[1],
              rest |-> IF Len(parts) > 1 THEN parts[2] ELSE <<>>]

\* The loop of parseLine: the arguments peeled until one is empty.
RECURSIVE parseLineLoop(_)
parseLineLoop(ln) ==
    LET p == parseArg(ln)
    IN  IF p.arg = <<>> THEN <<>> ELSE <<p.arg>> \o parseLineLoop(p.rest)

\* parseLine: args[0] of an empty slice is a run-time panic.
parseLine(ln) ==
    LET all == parseLineLoop(ln)
    IN  IF Len(all) = 0
            THEN [panic |-> TRUE, command |-> <<>>, args |-> <<>>]
        ELSE [panic |-> FALSE, command |-> ToUpper(all[1]),
              args |-> Tail(all)]

----------------------------------------------------------------------------
(* What a constructor (or ParseCommand) hands back.                        *)

NotEnoughArgsError == "not enough arguments"

ErrParseCommand == "failed to parse message"

Ok(cmd) == [kind |-> "ok", cmd |-> cmd]

Err(e) == [kind |-> "err", err |-> e]

Panic == [kind |-> "panic"]

NoResult == [kind |-> "none"]

----------------------------------------------------------------------------
(* Verbs.                                                                  *)

JOIN == <<"J", "O", "I", "N">>

MODE == <<"M", "O", "D", "E">>

NICK == <<"N", "I", "C", "K">>

PART == <<"P", "A", "R", "T">>

PASS == <<"P", "A", "S", "S">>

PING == <<"P", "I", "N", "G">>

PONG == <<"P", "O", "N", "G">>

PRIVMSG == <<"P", "R", "I", "V", "M", "S", "G">>

QUIT == <<"Q", "U", "I", "T">>

TOPIC == <<"T", "O", "P", "I", "C">>

USER == <<"U", "S", "E", "R">>

WHO == <<"W", "H", "O">>

WHOIS == <<"W", "H", "O", "I", "S">>

----------------------------------------------------------------------------
(* The constructors.  A command is a record whose type field names its Go  *)
(* type; an absent optional field is the empty string, as in Go.           *)

NewUnknownCommand(command, as) ==
    [type |-> "UnknownCommand", command |-> command, args |-> as]

NewPingCommand(as) ==
    IF Len(as) < 1 THEN Err(NotEnoughArgsError)
    ELSE Ok([type |-> "PingCommand", server |-> as[1],
             server2 |-> IF Len(as) > 1 THEN as[2] ELSE <<>>])

NewPongCommand(as) ==
    IF Len(as) < 1 THEN Err(NotEnoughArgsError)
    ELSE Ok([type |-> "PongCommand", server1 |-> as[1],
             server2 |-> IF Len(as) > 1 THEN as[2] ELSE <<>>])

NewPassCommand(as) ==
    IF Len(as) < 1 THEN Err(NotEnoughArgsError)
    ELSE Ok([type |-> "PassCommand", password |-> as[1]])

\* NewNickCommand with a minimum instead of an exact count.
NewNickCommandMin(as) ==
    IF Len(as) < 1 THEN Err(NotEnoughArgsError)
    ELSE Ok([type |-> "NickCommand", nickname |-> as[1]])

NewNickCommand(as) ==
    IF Len(as) # 1 THEN Err(NotEnoughArgsError)
    ELSE Ok([type |-> "NickCommand", nickname |-> as[1]])

\* NewUserMsgCommand that rejects a mode ParseUint does not accept.
NewUserMsgCommandStrict(as) ==
    IF Len(as) # 4 THEN Err(NotEnoughArgsError)
    ELSE LET mode == ParseUint(as[2])
         IN  IF mode.err THEN Err(ErrParseCommand)
             ELSE Ok([type |-> "UserMsgCommand", user |-> as[1],
                      mode |-> mode.val,
                      unused |-> as[3], realname |-> as[4]])

NewUserMsgCommand(as) ==
    IF Len(as) # 4 THEN Err(NotEnoughArgsError)
    ELSE LET mode == ParseUint(as[2])
         IN  Ok([type |-> "UserMsgCommand", user |-> as[1],
                 mode |-> IF ~mode.err THEN mode.val ELSE 0,
                 unused |-> as[3], realname |-> as[4]])

NewQuitCommand(as) ==
    Ok([type |-> "QuitCommand",
        message |-> IF Len(as) > 0 THEN as[1] ELSE <<>>])

\* The first loop of NewJoinCommand: keys[i] = key for every key of the
\* split key list; an index beyond len(keys) is a run-time panic.
RECURSIVE joinKeysLoop(_, _, _)
joinKeysLoop(keys, ks, i) ==
    IF i > Len(ks) THEN [panic |-> FALSE, keys |-> keys]
    ELSE IF i > Len(keys) THEN [panic |-> TRUE, keys |-> keys]
    ELSE joinKeysLoop([keys EXCEPT ![i] = ks[i]], ks, i + 1)

\* The second loop of NewJoinCommand: msg.channels[channel] = keys[i].
RECURSIVE joinChannelsLoop(_, _, _, _)
joinChannelsLoop(m, channels, keys, i) ==
    IF i > Len(channels) THEN m
    ELSE joinChannelsLoop(
            [c \in DOMAIN m \cup {channels[i]} |->
                IF c = channels[i] THEN keys[i] ELSE m[c]],
            channels, keys, i + 1)

NewJoinCommand(as) ==
    IF Len(as) = 0 THEN Err(NotEnoughArgsError)
    ELSE IF as[1] = <<"0">>
        THEN Ok([type |-> "JoinCommand", channels |-> <<>>, zero |-> TRUE])
    ELSE LET channels == Split(as[1], ",")
             keys0 == [i \in 1..Len(channels) |-> <<>>]
             filled == IF Len(as) > 1
                          THEN joinKeysLoop(keys0, Split(as[2], ","), 1)
                          ELSE [panic |-> FALSE, keys |-> keys0]
         IN  IF filled.panic THEN Panic
             ELSE Ok([type |-> "JoinCommand",
                      channels |->
                          joinChannelsLoop(<<>>, channels, filled.keys, 1),
                      zero |-> FALSE])

NewPartCommand(as) ==
    IF Len(as) < 1 THEN Err(NotEnoughArgsError)
    ELSE Ok([type |-> "PartCommand", channels |-> Split(as[1], ","),
             message |-> IF Len(as) > 1 THEN as[2] ELSE <<>>])

NewPrivMsgCommand(as) ==
    IF Len(as) < 2 THEN Err(NotEnoughArgsError)
    ELSE Ok([type |-> "PrivMsgCommand", target |-> as[1],
             message |-> as[2]])

NewTopicCommand(as) ==
    IF Len(as) < 1 THEN Err(NotEnoughArgsError)
    ELSE Ok([type |-> "TopicCommand", channel |-> as[1],
             topic |-> IF Len(as) > 1 THEN as[2] ELSE <<>>])

NewWhoisCommand(as) ==
    IF Len(as) < 1 THEN Err(NotEnoughArgsError)
    ELSE Ok([type |-> "WhoisCommand",
             target |-> IF Len(as) > 1 THEN as[1] ELSE <<>>,
             masks |-> Split(IF Len(as) > 1 THEN as[2] ELSE as[1], ",")])

NewWhoCommand(as) ==
    Ok([type |-> "WhoCommand",
        mask |-> IF Len(as) > 0 THEN as[1] ELSE <<>>,
        operatorOnly |-> Len(as) > 1 /\ as[2] = <<"o">>])

\* The room-identifier predicate the MODE constructor consults.
IsChannel(target) == target # <<>> /\ target[1] \in {"#", "&"}

NewChannelModeCommand(as) ==
    Ok([type |-> "ChannelModeCommand", channel |-> as[1]])

\* NewModeCommand up to the choice of the constructor; the user-mode
\* constructor runs step by step (below), so it is named, not evaluated.
NewModeCommand(as) ==
    IF Len(as) = 0 THEN Err(NotEnoughArgsError)
    ELSE IF IsChannel(as[1]) THEN NewChannelModeCommand(as)
    ELSE [kind |-> "call", fn |-> "NewUserModeCommand"]

\* The keys of the map parseCommandFuncs.
parseCommandFuncs ==
    {JOIN, MODE, NICK, PART, PASS, PING, PONG, PRIVMSG, QUIT, TOPIC, USER,
     WHO, WHOIS}

\* parseCommandFuncs[command](args).
constructor(command, as) ==
    CASE command = JOIN -> NewJoinCommand(as)
      [] command = MODE -> NewModeCommand(as)
      [] command = NICK -> NewNickCommand(as)
      [] command = PART -> NewPartCommand(as)
      [] command = PASS -> NewPassCommand(as)
      [] command = PING -> NewPingCommand(as)
      [] command = PONG -> NewPongCommand(as)
      [] command = PRIVMSG -> NewPrivMsgCommand(as)
      [] command = QUIT -> NewQuitCommand(as)
      [] command = TOPIC -> NewTopicCommand(as)
      [] command = USER -> NewUserMsgCommand(as)
      [] command = WHO -> NewWhoCommand(as)
      [] command = WHOIS -> NewWhoisCommand(as)

\* ParseCommand that rejects a verb without a constructor.
dispatchStrict(ln) ==
    LET p == parseLine(ln)
    IN  IF p.panic THEN Panic
        ELSE IF p.command \notin parseCommandFuncs
            THEN Err(ErrParseCommand)
        ELSE constructor(p.command, p.args)

\* ParseCommand up to the call of the constructor.
dispatch(ln) ==
    LET p == parseLine(ln)
    IN  IF p.panic THEN Panic
        ELSE IF p.command \notin parseCommandFuncs
            THEN Ok(NewUnknownCommand(p.command, p.args))
        ELSE constructor(p.command, p.args)

----------------------------------------------------------------------------
(* The user-mode decoder.                                                  *)

ZeroRune == "U+0000"

ZeroModeChange == [mode |-> ZeroRune, add |-> FALSE]

\* cmd.changes sized by bytes instead of runes.
changesLenBytes(as) == Len(Flatten(Tail(as))) - Len(Tail(as))

\* The length NewUserModeCommand gives cmd.changes.
changesLen(as) ==
    RuneCountInString(Flatten(Tail(as))) - Len(Tail(as))

\* A test of sig that rejects only the end of the token.
IsSignAny(sig) == sig # ZeroRune

\* The test of sig in NewUserModeCommand.
IsSign(sig) == sig = "+" \/ sig = "-"

\* The sign a flag of the range loop is recorded with.
addOf(sig) == sig = "+"

\* The entry the range loop stores for a received rune.
modeChangeOf(mode, sign) == [mode |-> mode, add |-> sign]

\* The channel the consumer is reading: that of the last goroutine started.
cur == runes[Len(runes)]

\* A goroutine of stringToRunes is at (or about to reach) runes <- rune.
AtSend(g) == g.str # <<>> /\ ~g.closed

\* The goroutine after its send was received: str = str[size:].
afterSend(g) ==
    [g EXCEPT !.str = SubSeq(g.str, DecodeRuneInString(g.str).size + 1,
                             Len(g.str))]

----------------------------------------------------------------------------
(* The lines the model feeds to ParseCommand.                              *)

SP == <<" ">>

TokBytes == {"a", " ", ":"}

\* Every line over TokBytes: the tokenizer's cases, verb "a".
TokLines == SeqsUpTo(TokBytes, MaxLineLen)

VerbWords ==
    parseCommandFuncs
        \cup {<<"j", "o", "i", "n">>, <<"N", "i", "c", "k">>,
              <<"F", "R", "O", "B">>, <<"f", "r", "o", "b">>}

ArgPieces == {<<" ", "a">>, <<" ", "o">>}

\* A verb followed by 0..MaxArgs one-byte arguments.
ArityLines ==
    {w \o Flatten(ps) : w \in VerbWords, ps \in SeqsUpTo(ArgPieces, MaxArgs)}

ChanNames == {<<"#", "a">>, <<"#", "b">>}

KeyNames == {<<"k", "1">>, <<"k", "2">>, <<>>}

\* JOIN with 1..MaxChans channels and 0..MaxKeys keys.
JoinLines ==
    {JOIN \o SP \o JoinWith(cs, <<",">>)
        \o (IF ks = <<>> THEN <<>> ELSE SP \o JoinWith(ks, <<",">>)) :
        cs \in SeqsFromTo(ChanNames, 1, MaxChans),
        ks \in SeqsUpTo(KeyNames, MaxKeys)}

ModeBytes == {"+", "-", "i"}

\* The tails " tok tok ..." whose flag-tokens are non-empty and hold at
\* most budget bytes in all.
RECURSIVE ModeTails(_)
ModeTails(budget) ==
    {<<>>} \cup
    UNION {{SP \o t \o rest : t \in [1..k -> ModeBytes],
                              rest \in ModeTails(budget - k)} :
           k \in 1..budget}

\* MODE n followed by flag-tokens of at most MaxModeRunes bytes in all.
ModeLines == {MODE \o <<" ", "n">> \o t : t \in ModeTails(MaxModeRunes)}

UserModeBytes == {"0", "1", "2", "5", "6", "-", "+", "x"}

\* USER a <mode> * r, the mode token of 1..MaxModeTokLen bytes.
UserLines ==
    {USER \o <<" ", "a", " ">> \o m \o <<" ", "*", " ", "r">> :
        m \in SeqsFromTo(UserModeBytes, 1, MaxModeTokLen)}

UserExample ==
    USER \o <<" ", "a", "l", "i", "c", "e", " ", "n", "o", "t", "a", "n",
              "u", "m", "b", "e", "r", " ", "*", " ", ":", "A", "l", "i",
              "c", "e", " ", "E", "x", "a", "m", "p", "l", "e">>

\* The lines the specification quotes, and a few with two-byte characters.
ExampleLines ==
    {UserExample,
     USER \o <<" ", "a", " ", "0", "2", "5", "5", " ", "*", " ", "r">>,
     USER \o <<" ", "a", " ", "1", "0", "0", "0", " ", "*", " ", "r">>,
     PRIVMSG \o <<" ", "#", "r", "o", "o", "m", " ", ":", "h", "e", "l", "l",
                  "o", " ", "t", "h", "e", "r", "e", " ", "f", "r", "i", "e",
                  "n", "d">>,
     MODE \o <<" ", "s", "o", "m", "e", "u", "s", "e", "r", " ", "+", "i",
               "w", "-", "o">>,
     MODE \o <<" ", "s", "o", "m", "e", "u", "s", "e", "r", " ", "x", "o">>,
     MODE \o <<" ", "s", "o", "m", "e", "u", "s", "e", "r", " ", "+", "i",
               " ", "w">>,
     MODE \o <<" ", "n", " ", "+", "xC3", "xA9">>,
     MODE \o <<" ", "n", " ", "-", "i", "xC3", "xA9", " ", "+", "xC3", "xA9",
               "w">>,
     MODE \o <<" ", "n", " ", "xC3", "xA9", "i">>,
     MODE \o <<" ", "#", "a", " ", "+", "i">>,
     MODE \o <<" ", "#", "a", " ", "i">>,
     JOIN \o <<" ", "#", "a", " ", "k", "1", ",", "k", "2">>,
     JOIN \o <<" ", "#", "a", ",", "#", "b", " ", "k", "1">>,
     JOIN \o <<" ", "0">>,
     JOIN \o <<" ", "0", " ", "k", "1", ",", "k", "2">>,
     <<"F", "R", "O", "B", " ", "a", " ", "b">>,
     <<"xC3", "xA9", " ", "a">>,
     PART \o <<" ", "#", "a", ",", "#", "b">>,
     PART \o <<" ", "#", "a", ",", "#", "b", " ", ":", "s", "o", " ", "l",
               "o", "n", "g">>,
     PART \o <<" ", "#", "a", " ", "b", "o">>,
     <<"p", "a", "r", "t", " ", "#", "a", " ", ":">>}

Lines == TokLines \cup ArityLines \cup JoinLines \cup ModeLines
            \cup UserLines
            \cup ExampleLines

\* Message() without the fall-back to the source's nickname.
partMessageStored(cmd, src) == cmd.message

\* PartCommand.Message() on a command whose source has nickname src.
partMessage(cmd, src) == IF cmd.message = <<>> THEN src ELSE cmd.message

NoClient == "nil"

TheClient == "client"

Nicks == {<<"a", "l">>, <<"b", "o">>}

NoRead == [kind |-> "none"]

----------------------------------------------------------------------------
(* The state machine.                                                      *)

Init ==
    /\ line \in Lines
    /\ pc = "recv"
    /\ result = NoResult
    /\ args = <<>>
    /\ changes = <<>>
    /\ index = 0
    /\ argi = 0
    /\ add = FALSE
    /\ runes = <<>>
    /\ client = NoClient
    /\ nick = <<"a", "l">>
    /\ msgRead = NoRead

\* ParseCommand(line).  For a user-mode MODE line it runs NewUserModeCommand
\* up to its range loop: cmd.changes is allocated (a negative length is a
\* run-time panic) and index is 0.
ParseCommand ==
    /\ pc = "recv"
    /\ LET r == dispatch(line)
       IN  IF r.kind # "call"
               THEN /\ result' = r
                    /\ pc' = "returned"
                    /\ UNCHANGED <<args, changes, index, argi>>
           ELSE LET as == parseLine(line).args
                IN  IF changesLen(as) < 0
                        THEN /\ result' = Panic
                             /\ pc' = "returned"
                             /\ UNCHANGED <<args, changes, index, argi>>
                    ELSE /\ args' = as
                         /\ changes' =
                                [i \in 1..changesLen(as) |-> ZeroModeChange]
                         /\ index' = 0
                         /\ argi' = 1
                         /\ pc' = "mode_for"
                         /\ UNCHANGED result
    /\ UNCHANGED <<line, add, runes, client, nick, msgRead>>

\* The range loop takes the next flag-token and calls stringToRunes, which
\* starts a goroutine on a new unbuffered channel.
StringToRunes ==
    /\ pc = "mode_for"
    /\ argi < Len(args)
    /\ runes' = Append(runes, [str |-> args[argi + 1], closed |-> FALSE])
    /\ pc' = "mode_sig"
    /\ UNCHANGED <<line, result, args, changes, index, argi, add, client,
                   nick, msgRead>>

\* The range loop is over: return cmd, nil.
ModeReturn ==
    /\ pc = "mode_for"
    /\ argi >= Len(args)
    /\ result' = Ok([type |-> "ModeCommand", nickname |-> args[1],
                     changes |-> changes])
    /\ pc' = "returned"
    /\ UNCHANGED <<line, args, changes, index, argi, add, runes, client,
                   nick, msgRead>>

\* sig := <-modeChange, and the test of sig.  The receive completes with
\* the goroutine's send, or yields the zero rune once the channel is closed.
RecvSig ==
    /\ pc = "mode_sig"
    /\ AtSend(cur) \/ cur.closed
    /\ LET sig == IF cur.closed THEN ZeroRune
                  ELSE DecodeRuneInString(cur.str).rune
       IN  /\ runes' = IF cur.closed THEN runes
                       ELSE [runes EXCEPT ![Len(runes)] = afterSend(cur)]
           /\ IF ~IsSign(sig)
                  THEN /\ result' = Err(ErrParseCommand)
                       /\ pc' = "returned"
                       /\ UNCHANGED add
              ELSE /\ add' = addOf(sig)
                   /\ pc' = "mode_range"
                   /\ UNCHANGED result
    /\ UNCHANGED <<line, args, changes, index, argi, client, nick, msgRead>>

\* One iteration of "for mode := range modeChange": a rune is received and
\* stored at cmd.changes[index]; an index beyond the slice is a panic.
RangeRecv ==
    /\ pc = "mode_range"
    /\ AtSend(cur)
    /\ runes' = [runes EXCEPT ![Len(runes)] = afterSend(cur)]
    /\ IF index >= Len(changes)
           THEN /\ result' = Panic
                /\ pc' = "returned"
                /\ UNCHANGED <<changes, index>>
       ELSE /\ changes' = [changes EXCEPT ![index + 1] =
                              modeChangeOf(DecodeRuneInString(cur.str).rune,
                                           add)]
            /\ index' = index + 1
            /\ UNCHANGED <<result, pc>>
    /\ UNCHANGED <<line, args, argi, add, client, nick, msgRead>>

\* The channel is closed: the range loop over it ends.
RangeDone ==
    /\ pc = "mode_range"
    /\ cur.closed
    /\ argi' = argi + 1
    /\ pc' = "mode_for"
    /\ UNCHANGED <<line, result, args, changes, index, add, runes, client,
                   nick, msgRead>>

\* A goroutine of stringToRunes whose string is used up closes its channel
\* and ends.
ProducerClose ==
    \E g \in 1..Len(runes) :
        /\ runes[g].str = <<>>
        /\ ~runes[g].closed
        /\ runes' = [runes EXCEPT ![g].closed = TRUE]
        /\ UNCHANGED <<line, pc, result, args, changes, index, argi, add,
                       client, nick, msgRead>>

\* BaseCommand.SetBase: the caller binds the owning connection.
SetBase ==
    /\ pc = "returned"
    /\ result.kind = "ok"
    /\ client = NoClient
    /\ client' = TheClient
    /\ UNCHANGED <<line, pc, result, args, changes, index, argi, add, runes,
                   nick, msgRead>>

\* The owning connection changes its nickname.
NickChange ==
    /\ client # NoClient
    /\ \E n \in Nicks \ {nick} : nick' = n
    /\ UNCHANGED <<line, pc, result, args, changes, index, argi, add, runes,
                   client, msgRead>>

\* PartCommand.Message(): cmd.Source().Nick() on an unbound command is a
\* nil dereference.
Message ==
    /\ pc = "returned"
    /\ result.kind = "ok"
    /\ result.cmd.type = "PartCommand"
    /\ msgRead' =
          IF result.cmd.message = <<>> /\ client = NoClient THEN Panic
          ELSE [kind |-> "ok", val |-> partMessage(result.cmd, nick)]
    /\ UNCHANGED <<line, pc, result, args, changes, index, argi, add, runes,
                   client, nick>>

Next ==
    \/ ParseCommand
    \/ StringToRunes
    \/ ModeReturn
    \/ RecvSig
    \/ RangeRecv
    \/ RangeDone
    \/ ProducerClose
    \/ SetBase
    \/ NickChange
    \/ Message

Spec == Init /\ [][Next]_vars

----------------------------------------------------------------------------
(* Vocabulary of the properties.                                           *)

Returned == pc = "returned"

\* The verb and the arguments of the line, when it has a token at all.
pl == parseLine(line)

\* The runes of a string, in order.
RECURSIVE RunesOf(_)
RunesOf(s) ==
    IF s = <<>> THEN <<>>
    ELSE <<DecodeRuneInString(s).rune>>
            \o RunesOf(SubSeq(s, DecodeRuneInString(s).size + 1, Len(s)))

\* The line is a MODE command whose target is not a room.
UserModeLine ==
    /\ ~pl.panic
    /\ pl.command = MODE
    /\ pl.args # <<>>
    /\ ~IsChannel(pl.args[1])

\* The flag-tokens of a user-mode line, each as its runes.
FlagTokens == [j \in 1..(Len(pl.args) - 1) |-> RunesOf(pl.args[j + 1])]

Signed(t) == t # <<>> /\ t[1] \in {"+", "-"}

\* One entry per rune after the first of token t, with t's own sign.
EntriesOf(t) ==
    [q \in 1..(Len(t) - 1) |-> [mode |-> t[q + 1], add |-> t[1] = "+"]]

ModeExample ==
    MODE \o <<" ", "s", "o", "m", "e", "u", "s", "e", "r", " ", "+", "i",
              "w", "-", "o">>

someuser == <<"s", "o", "m", "e", "u", "s", "e", "r">>

----------------------------------------------------------------------------
(* C1 *)

\* The JOIN line names a channel list (not the "0" sentinel).
JoinListLine ==
    /\ ~pl.panic
    /\ pl.command = JOIN
    /\ pl.args # <<>>
    /\ pl.args[1] # <<"0">>

JoinChans == Split(pl.args[1], ",")

JoinKeys == IF Len(pl.args) > 1 THEN Split(pl.args[2], ",") ELSE <<>>

\* C1: NewJoinCommand on a list of n channels and m keys always returns a
\* command, whose mapping gives channel i key i for i < min(n,m) and the
\* empty key for m <= i < n; keys beyond the channel list are ignored, so
\* more keys than channels is no failure.  (A name listed twice is judged
\* at its last position.)
C1_JoinZipInRange ==
    (Returned /\ JoinListLine) =>
        /\ result.kind = "ok"
        /\ result.cmd.type = "JoinCommand"
        /\ ~result.cmd.zero
        /\ DOMAIN result.cmd.channels
              = {JoinChans[i] : i \in 1..Len(JoinChans)}
        /\ \A i \in 1..Len(JoinChans) :
              (\A j \in (i + 1)..Len(JoinChans) : JoinChans[j] # JoinChans[i])
                  => result.cmd.channels[JoinChans[i]]
                        = IF i <= Len(JoinKeys) THEN JoinKeys[i] ELSE <<>>

----------------------------------------------------------------------------
(* C2 *)

\* The line has no token: empty, starting with a space, or only ":".
NoTokenLine == line = <<>> \/ line[1] = " " \/ line = <<":">>

\* C2: ParseCommand on a line with no token ends with a defined result (an
\* error or a value), never with an out-of-bounds access.
C2_NoTokenLineNoCrash ==
    (Returned /\ NoTokenLine) => result.kind \in {"ok", "err"}

----------------------------------------------------------------------------
(* C3 *)

\* C3: when NewUserModeCommand has returned, on any path, no goroutine of
\* stringToRunes is left at its channel send (nobody will receive again).
C3_ProducersDrained ==
    Returned => \A g \in 1..Len(runes) : ~AtSend(runes[g])

----------------------------------------------------------------------------
(* C4 *)

\* C4 as stated: MODE someuser "+iw-o" yields exactly the three changes
\* {i,add}, {w,add}, {o,remove}: the "-" flips the sign and is no flag.
C4_SignFlipsMidToken ==
    (Returned /\ line = ModeExample) =>
        result = Ok([type |-> "ModeCommand", nickname |-> someuser,
                     changes |-> <<[mode |-> "i", add |-> TRUE],
                                   [mode |-> "w", add |-> TRUE],
                                   [mode |-> "o", add |-> FALSE]>>])

----------------------------------------------------------------------------
(* C5 *)

----------------------------------------------------------------------------
(* C6 *)

\* C6: a user-mode MODE command with a flag-token whose first character is
\* neither "+" nor "-" returns ErrParseCommand and no command, whatever
\* correctly signed tokens precede that token.
C6_UnsignedTokenFails ==
    (Returned /\ UserModeLine
        /\ \E j \in 1..Len(FlagTokens) : ~Signed(FlagTokens[j])) =>
        result = Err(ErrParseCommand)

C6_Witness ==
    /\ Returned
    /\ line = MODE \o <<" ", "s", "o", "m", "e", "u", "s", "e", "r", " ",
                        "+", "i", " ", "w">>
    /\ result = Err(ErrParseCommand)
    /\ index = 1

----------------------------------------------------------------------------
(* C7 *)

\* The arity rule of each verb: its least number of arguments.
MinArgs(verb) ==
    IF verb = PRIVMSG THEN 2
    ELSE IF verb = USER THEN 4
    ELSE IF verb \in {PING, PONG, PASS, PART, TOPIC, MODE, WHOIS, JOIN, NICK}
        THEN 1
    ELSE 0

\* NICK and USER take exactly their least number.
ArityHolds(verb, n) ==
    /\ n >= MinArgs(verb)
    /\ verb \in {NICK, USER} => n = MinArgs(verb)

\* C7: a constructor called with fewer arguments than its verb's minimum
\* (or, for NICK and USER, with a count other than 1 and 4) returns
\* NotEnoughArgsError and no command; what is returned is a command or an
\* error, never both, and a command is returned only when its arity rule
\* holds.
C7_ArityChecked ==
    (Returned /\ ~pl.panic /\ pl.command \in parseCommandFuncs) =>
        /\ ~ArityHolds(pl.command, Len(pl.args))
              => result = Err(NotEnoughArgsError)
        /\ result.kind = "ok"
              => /\ ArityHolds(pl.command, Len(pl.args))
                 /\ DOMAIN result = {"kind", "cmd"}
        /\ result.kind = "err" => DOMAIN result = {"kind", "err"}

C7_Witness ==
    /\ Returned
    /\ ~pl.panic
    /\ pl.command = USER
    /\ Len(pl.args) = 5
    /\ result = Err(NotEnoughArgsError)

----------------------------------------------------------------------------
(* C8 *)

\* Tokens separated by single spaces, none empty and none starting with
\* ":": what stands before an argument position.
PlainTokens(s) ==
    /\ s # <<>>
    /\ s[1] \notin {" ", ":"}
    /\ s[Len(s)] # " "
    /\ \A i \in 1..(Len(s) - 1) : s[i] = " " => s[i + 1] \notin {" ", ":"}

\* Byte p of the line is a ":" at an argument position.
TrailingAt(p) ==
    /\ p \in 1..Len(line)
    /\ line[p] = ":"
    /\ p > 1 => /\ p > 2
                /\ line[p - 1] = " "
                /\ PlainTokens(SubSeq(line, 1, p - 2))

\* The tokens the claim expects for a ":" at p: those before it, then the
\* remainder of the line.
TokensFor(p) ==
    (IF p = 1 THEN <<>> ELSE Split(SubSeq(line, 1, p - 2), " "))
        \o <<SubSeq(line, p + 1, Len(line))>>

\* The tokenizer's output is the expected tokens, the first as the verb.
TokenizesTo(toks) ==
    /\ ~pl.panic
    /\ pl.command = ToUpper(toks[1])
    /\ pl.args = Tail(toks)

\* C8 as stated: for every line with a ":" at an argument position the
\* last token is the remainder after it, verbatim, nothing follows it and
\* the earlier tokens keep their order.  (The line ":" has no token at all
\* and is left to C2.)
C8_TrailingIsRemainder ==
    (Returned /\ ~NoTokenLine) =>
        \A p \in 1..Len(line) : TrailingAt(p) => TokenizesTo(TokensFor(p))

\* C8, amended: the same, for a ":" with a non-empty remainder.  (With an
\* empty remainder no token is produced for it: the token list ends with
\* the token before the ":".)
C8_NonEmptyTrailingIsRemainder ==
    Returned =>
        \A p \in 1..Len(line) :
            (TrailingAt(p) /\ p < Len(line)) => TokenizesTo(TokensFor(p))

PrivmsgExample ==
    PRIVMSG \o <<" ", "#", "r", "o", "o", "m", " ", ":", "h", "e", "l", "l",
                 "o", " ", "t", "h", "e", "r", "e", " ", "f", "r", "i", "e",
                 "n", "d">>

C8_Witness ==
    /\ Returned
    /\ line = PrivmsgExample
    /\ result = Ok([type |-> "PrivMsgCommand",
                    target |-> <<"#", "r", "o", "o", "m">>,
                    message |-> <<"h", "e", "l", "l", "o", " ", "t", "h",
                                  "e", "r", "e", " ", "f", "r", "i", "e",
                                  "n", "d">>])

----------------------------------------------------------------------------
(* C9 *)

\* The first token of a line that has one, as written.
FirstToken ==
    IF line[1] = ":" THEN Tail(line)
    ELSE IF IndexByte(line, " ") = 0 THEN line
    ELSE SubSeq(line, 1, IndexByte(line, " ") - 1)

\* C9: for a line whose first token, upper-cased, is none of the 13
\* registered verbs, ParseCommand returns an UnknownCommand with that
\* upper-cased verb and the remaining arguments in order, and no error.
C9_UnknownVerbPassesThrough ==
    /\ Cardinality(parseCommandFuncs) = 13
    /\ (Returned /\ ~NoTokenLine /\ ToUpper(FirstToken) \notin parseCommandFuncs)
          => /\ ~pl.panic
             /\ result = Ok([type |-> "UnknownCommand",
                             command |-> ToUpper(FirstToken),
                             args |-> pl.args])

C9_Witness ==
    /\ Returned
    /\ line = <<"f", "r", "o", "b", " ", "a", " ", "o">>
    /\ result = Ok([type |-> "UnknownCommand",
                    command |-> <<"F", "R", "O", "B">>,
                    args |-> <<<<"a">>, <<"o">>>>])

----------------------------------------------------------------------------
(* C10 *)

\* The line is a PART command that was accepted.
PartParsed ==
    /\ Returned
    /\ ~pl.panic
    /\ pl.command = PART
    /\ result.kind = "ok"

\* C10: NewPartCommand without a message token stores the empty message,
\* and a Message() read on the bound command returns the source's nickname
\* as it is at that read; with a message token, the read returns the token
\* whatever the nickname.
C10_PartMessageDefaultAtRead ==
    /\ [](PartParsed =>
            result.cmd.message
                = IF Len(pl.args) > 1 THEN pl.args[2] ELSE <<>>)
    /\ [][/\ (Message /\ Len(pl.args) > 1) =>
                msgRead' = [kind |-> "ok", val |-> pl.args[2]]
          /\ (Message /\ Len(pl.args) <= 1 /\ client # NoClient) =>
                msgRead' = [kind |-> "ok", val |-> nick]]_vars

\* A read that returned the nickname the connection changed to after the
\* command was parsed and bound.
C10_Witness ==
    /\ PartParsed
    /\ result.cmd.message = <<>>
    /\ client # NoClient
    /\ nick = <<"b", "o">>
    /\ msgRead = [kind |-> "ok", val |-> <<"b", "o">>]

----------------------------------------------------------------------------
(* C11 *)

\* The line is a USER command with exactly four arguments.
UserFourLine ==
    /\ ~pl.panic
    /\ pl.command = USER
    /\ Len(pl.args) = 4

\* The token is a base-10 numeral: one or more decimal digits.
IsNumeral(t) ==
    /\ t # <<>>
    /\ \A i \in 1..Len(t) :
          t[i] \in {"0", "1", "2", "3", "4", "5", "6", "7", "8", "9"}

\* The value of a numeral, from its last digit up.
RECURSIVE NumeralValue(_)
NumeralValue(t) ==
    IF t = <<>> THEN 0
    ELSE NumeralValue(SubSeq(t, 1, Len(t) - 1)) * 10
            + (CHOOSE v \in 0..9 : Digits[v + 1] = t[Len(t)])

\* C11: USER with exactly four tokens returns a command whatever its mode
\* token: the mode field is the token's value when the token is a base-10
\* numeral in 0..255 and 0 for every other token (non-numeric, signed, out
\* of range); the other fields are the tokens, and no error is returned.
C11_UserModeLenient ==
    (Returned /\ UserFourLine) =>
        result = Ok([type |-> "UserMsgCommand",
                     user |-> pl.args[1],
                     mode |-> IF IsNumeral(pl.args[2])
                                    /\ NumeralValue(pl.args[2]) <= 255
                                  THEN NumeralValue(pl.args[2])
                              ELSE 0,
                     unused |-> pl.args[3],
                     realname |-> pl.args[4]])

\* USER alice notanumber * :Alice Example was accepted with mode 0.
C11_Witness ==
    /\ Returned
    /\ line = UserExample
    /\ result.kind = "ok"
    /\ result.cmd.mode = 0
    /\ result.cmd.realname = <<"A", "l", "i", "c", "e", " ", "E", "x", "a",
                                "m", "p", "l", "e">>

====
